---- MODULE Spec2Model ----
(***************************************************************************)
(* A model of YahooFinanceAgent                                            *)
(* (src/src/vnstock_agent/agent/yahoo_finance_agent.py).                   *)
(*                                                                         *)
(* Python values are represented as follows.                               *)
(*   Optional[T]   [none |-> BOOLEAN, v |-> T]; None has none = TRUE.      *)
(*   str           a sequence of text fragments; "" is the empty sequence, *)
(*                 an f-string is the concatenation of its pieces.         *)
(*   date string   [kind, day]: kind says how the text is written          *)
(*                 ("padded" 2024-01-0d, "unpadded" 2024-1-d, "garbage",   *)
(*                 "empty"), day is the calendar day it denotes.           *)
(*   DataFrame     a sequence of rows.                                     *)
(* The upstream library (yfinance) is the environment: each upstream call  *)
(* either raises an Exception with some message, or returns a value.       *)
(***************************************************************************)
EXTENDS Integers, Sequences, FiniteSets, TLC

\* ------------------------------------------------------------- bounds
MaxDay == 2        \* expiry dates and date bounds fall on days 1..MaxDay
MaxStrike == 1     \* strikes and strike bounds are 0..MaxStrike
MaxQty == 1        \* openInterest and volume are 0..MaxQty
MaxFrame == 2      \* rows of an accessor's upstream frame; also the largest limit

Days == 1..MaxDay
Strikes == 0..MaxStrike
Quantities == 0..MaxQty

\* ------------------------------------------------- Python value helpers
None == [none |-> TRUE, v |-> <<>>]
NoneNum == [none |-> TRUE, v |-> 0]
NoDate == [kind |-> "empty", day |-> 0]
NoneDate == [none |-> TRUE, v |-> NoDate]
Some(x) == [none |-> FALSE, v |-> x]

\* str(e) / a literal as text fragments
Str(s) == IF s = "" THEN <<>> ELSE <<s>>

\* Python truthiness of an Optional[str] text and of an Optional date string
TruthyStr(o) == ~o.none /\ o.v # <<>>
TruthyDate(o) == ~o.none /\ o.v.kind # "empty"

Min(a, b) == IF a < b THEN a ELSE b

\* pd.concat(frames, ignore_index=True): the rows of the frames, frame after frame
RECURSIVE Concat(_)
Concat(frames) ==
  IF frames = <<>> THEN <<>> ELSE Head(frames) \o Concat(Tail(frames))

SeqsUpTo(S, n) == UNION {[1..k -> S] : k \in 0..n}

\* ------------------------------------------------------ date strings
Padded(d) == [kind |-> "padded", day |-> d]
Unpadded(d) == [kind |-> "unpadded", day |-> d]
Garbage == [kind |-> "garbage", day |-> 0]

\* datetime.strptime(s, "%Y-%m-%d"): accepts zero-padded and unpadded fields,
\* raises ValueError on anything else (the empty string included).
Strptime(s) ==
  IF s.kind \in {"padded", "unpadded"}
  THEN [ok |-> TRUE, date |-> s.day]
  ELSE [ok |-> FALSE, date |-> 0]

\* ------------------------------------------------------------ logging
LogEntry(level, text, tk, expiry, detail) ==
  [level |-> level, text |-> text, ticker |-> tk, expiry |-> expiry, detail |-> detail]

Request(op, expiry) == [op |-> op, expiry |-> expiry]

\* ------------------------------------------------- upstream environment
ExcMessages == {<<>>, <<"timeout">>}

Raise(m) == [kind |-> "raise", msg |-> m, frame |-> <<>>]
ReturnsNone == [kind |-> "none", msg |-> <<>>, frame |-> <<>>]
Returns(f) == [kind |-> "data", msg |-> <<>>, frame |-> f]

Raises == {Raise(m) : m \in ExcMessages}

\* what an accessor of yfinance may answer: a frame of index labels, None, or an exception
Frames == SeqsUpTo(1..MaxFrame, MaxFrame)
FrameOutcomes == Raises \cup {ReturnsNone} \cup {Returns(f) : f \in Frames}
Limits == 0..MaxFrame

Tickers == {"AAPL"}

\* an option record as yfinance lists it; contractExpiry/contractType stand for the
\* contractSymbol column, which encodes the expiry and the side of the contract
Row(d, side, k, oi, vol) ==
  [contractExpiry |-> d, contractType |-> side, strike |-> k,
   openInterest |-> oi, volume |-> vol]

Rows(d, side) ==
  {Row(d, side, k, oi, vol) : k \in Strikes, oi \in Quantities, vol \in Quantities}

Chain(calls, puts) == [kind |-> "data", msg |-> <<>>, calls |-> calls, puts |-> puts]
ChainRaise(m) == [kind |-> "raise", msg |-> m, calls |-> <<>>, puts |-> <<>>]

\* the chain the provider lists for day d in the call-level specification:
\* one call and one put, on different strikes, quantities depending on the day
ListedChain(d) ==
  Chain(<<Row(d, "C", 0, d % (MaxQty + 1), MaxQty)>>,
        <<Row(d, "P", MaxStrike, MaxQty, d % (MaxQty + 1))>>)

\* the provider's answer to option_chain(expiry) in the call-level specification:
\* an exception, the listed chain, or a chain without contracts
ChainOutcomes(d) ==
  {ChainRaise(m) : m \in ExcMessages} \cup {ListedChain(d), Chain(<<>>, <<>>)}

\* the provider's answer in the data-level specification: an exception, or calls
\* with at most one contract of any strike, open interest and volume
RichChainOutcomes(d) ==
  {ChainRaise(m) : m \in ExcMessages}
    \cup {Chain(cs, <<>>) : cs \in SeqsUpTo(Rows(d, "C"), 1)}

\* t.options: a tuple of distinct, ascending, zero-padded expiry strings
RECURSIVE Ascending(_)
Ascending(S) ==
  IF S = {} THEN <<>>
  ELSE LET m == CHOOSE x \in S : \A y \in S : x <= y
       IN <<Padded(m)>> \o Ascending(S \ {m})

ExpirationOutcomes == Raises \cup {Returns(Ascending(S)) : S \in SUBSET Days}

DateArgs ==
  {NoneDate, Some(NoDate), Some(Garbage)}
    \cup {Some(Padded(d)) : d \in Days} \cup {Some(Unpadded(d)) : d \in Days}
StrikeArgs == {NoneNum} \cup {Some(k) : k \in Strikes}
OptionTypes == {"C", "P", "None"}

\* ------------------------------------------------------ return values
\* what a public method hands back: value (the result, or the first of a pair),
\* second (the second frame of get_institutional_holders), error (the message of
\* the options methods), escaped (an exception left the method)
Ret(value, second, error) ==
  [value |-> value, second |-> second, error |-> error, escaped |-> FALSE]
Escapes == [value |-> None, second |-> None, error |-> None, escaped |-> TRUE]

\* the effect of a (part of a) method: the return value, the log records written,
\* the upstream requests issued, and whether an upstream call raised
Effect(ret, log, calls, raised) ==
  [ret |-> ret, log |-> log, calls |-> calls, raised |-> raised]

\* df.head(limit), limit >= 0
HeadRows(df, limit) == SubSeq(df, 1, Min(limit, Len(df)))

\* df.sort_index(ascending=False) on a frame of index labels
RECURSIVE SortIndexDescending(_)
SortIndexDescending(df) ==
  IF df = <<>> THEN <<>>
  ELSE LET rest == SortIndexDescending(Tail(df))
           h == Head(df)
           IsAhead(x) == x >= h
           IsBehind(x) == x < h
       IN SelectSeq(rest, IsAhead) \o <<h>> \o SelectSeq(rest, IsBehind)

\* ------------------------------------------------------ simple accessors
\* `try: return <upstream>() except Exception as e: logger.error(...); return None`
get_ticker_info(tk, out) ==
  IF out.kind = "raise"
  THEN Effect(Ret(None, None, None),
              <<LogEntry("error", "Error retrieving ticker info", tk, NoDate, out.msg)>>,
              <<Request("get_info", NoDate)>>, TRUE)
  ELSE Effect(Ret(IF out.kind = "none" THEN None ELSE Some(out.frame), None, None),
              <<>>, <<Request("get_info", NoDate)>>, FALSE)

get_calendar(tk, out) ==
  IF out.kind = "raise"
  THEN Effect(Ret(None, None, None),
              <<LogEntry("error", "Error retrieving calendar", tk, NoDate, out.msg)>>,
              <<Request("get_calendar", NoDate)>>, TRUE)
  ELSE Effect(Ret(IF out.kind = "none" THEN None ELSE Some(out.frame), None, None),
              <<>>, <<Request("get_calendar", NoDate)>>, FALSE)

get_recommendations(tk, limit, out) ==
  IF out.kind = "raise"
  THEN Effect(Ret(None, None, None),
              <<LogEntry("error", "Error retrieving recommendations", tk, NoDate, out.msg)>>,
              <<Request("get_recommendations", NoDate)>>, TRUE)
  ELSE Effect(Ret(IF out.kind = "none" THEN None ELSE Some(HeadRows(out.frame, limit)),
                  None, None),
              <<>>, <<Request("get_recommendations", NoDate)>>, FALSE)

get_upgrades_downgrades(tk, limit, out) ==
  IF out.kind = "raise"
  THEN Effect(Ret(None, None, None),
              <<LogEntry("error", "Error retrieving upgrades/downgrades", tk, NoDate, out.msg)>>,
              <<Request("get_upgrades_downgrades", NoDate)>>, TRUE)
  ELSE Effect(Ret(IF out.kind = "none" THEN None
                  ELSE Some(HeadRows(SortIndexDescending(out.frame), limit)),
                  None, None),
              <<>>, <<Request("get_upgrades_downgrades", NoDate)>>, FALSE)

\* a plausible slip: the upstream call made outside the try block
get_price_history_unguarded(tk, out) ==
  IF out.kind = "raise"
  THEN Effect(Escapes, <<>>, <<Request("history", NoDate)>>, TRUE)
  ELSE Effect(Ret(IF out.kind = "none" THEN None ELSE Some(out.frame), None, None),
              <<>>, <<Request("history", NoDate)>>, FALSE)

\* the period argument only selects what the provider is asked for
get_price_history(tk, out) ==
  IF out.kind = "raise"
  THEN Effect(Ret(None, None, None),
              <<LogEntry("error", "Error retrieving price history", tk, NoDate, out.msg)>>,
              <<Request("history", NoDate)>>, TRUE)
  ELSE Effect(Ret(IF out.kind = "none" THEN None ELSE Some(out.frame), None, None),
              <<>>, <<Request("history", NoDate)>>, FALSE)

\* the six statement properties, in the order the dictionary literal reads them
StatementProps ==
  << <<"income", "annual">>, <<"income", "quarterly">>,
     <<"balance", "annual">>, <<"balance", "quarterly">>,
     <<"cash", "annual">>, <<"cash", "quarterly">> >>
StatementTypes == {"income", "balance", "cash", "other"}
Frequencies == {"quarterly", "annual", "other"}
\* the provider's disposition: property number `bad` raises (0: none does)
StatementOutcomes == {[bad |-> b, msg |-> m] : b \in 0..Len(StatementProps), m \in ExcMessages}

StatementRequests(n) == [i \in 1..n |-> Request(StatementProps[i][1], NoDate)]

get_financial_statements(tk, statement_type, frequency, out) ==
  IF out.bad # 0
  THEN Effect(Ret(None, None, None),
              <<LogEntry("error", "Error retrieving statement", tk, NoDate, out.msg)>>,
              StatementRequests(out.bad), TRUE)
  ELSE IF \E i \in 1..Len(StatementProps) : StatementProps[i] = <<statement_type, frequency>>
  THEN LET i == CHOOSE j \in 1..Len(StatementProps) :
                    StatementProps[j] = <<statement_type, frequency>>
       IN Effect(Ret(Some(<<i>>), None, None), <<>>,
                 StatementRequests(Len(StatementProps)), FALSE)
  \* statements[statement_type][frequency] raises KeyError
  ELSE Effect(Ret(None, None, None),
              <<LogEntry("error", "Error retrieving statement", tk, NoDate, <<"KeyError">>)>>,
              StatementRequests(Len(StatementProps)), FALSE)

\* one try block around both upstream calls
get_institutional_holders(tk, top_n, inst, fund) ==
  IF inst.kind = "raise"
  THEN Effect(Ret(None, None, None),
              <<LogEntry("error", "Error retrieving institutional holders", tk, NoDate, inst.msg)>>,
              <<Request("get_institutional_holders", NoDate)>>, TRUE)
  ELSE IF fund.kind = "raise"
  THEN Effect(Ret(None, None, None),
              <<LogEntry("error", "Error retrieving institutional holders", tk, NoDate, fund.msg)>>,
              <<Request("get_institutional_holders", NoDate),
                Request("get_mutualfund_holders", NoDate)>>, TRUE)
  ELSE Effect(Ret(IF inst.kind = "none" THEN None ELSE Some(HeadRows(inst.frame, top_n)),
                  IF fund.kind = "none" THEN None ELSE Some(HeadRows(fund.frame, top_n)),
                  None),
              <<>>,
              <<Request("get_institutional_holders", NoDate),
                Request("get_mutualfund_holders", NoDate)>>, FALSE)

get_earnings_history(tk, limit, out) ==
  IF out.kind = "raise"
  THEN Effect(Ret(None, None, None),
              <<LogEntry("error", "Error retrieving earnings history", tk, NoDate, out.msg)>>,
              <<Request("get_earnings_history", NoDate)>>, TRUE)
  ELSE Effect(Ret(IF out.kind = "none" THEN None ELSE Some(HeadRows(out.frame, limit)),
                  None, None),
              <<>>, <<Request("get_earnings_history", NoDate)>>, FALSE)

get_insider_trades(tk, limit, out) ==
  IF out.kind = "raise"
  THEN Effect(Ret(None, None, None),
              <<LogEntry("error", "Error retrieving insider trades", tk, NoDate, out.msg)>>,
              <<Request("get_insider_transactions", NoDate)>>, TRUE)
  ELSE Effect(Ret(IF out.kind = "none" THEN None ELSE Some(HeadRows(out.frame, limit)),
                  None, None),
              <<>>, <<Request("get_insider_transactions", NoDate)>>, FALSE)

\* ------------------------------------------------ get_options_chain
ChainResult(chain, error, log, calls, raised) ==
  [chain |-> chain, error |-> error, log |-> log, calls |-> calls, raised |-> raised]

\* a plausible slip: the except branch returning no message
get_options_chain_silent(tk, expiry, option_type, out) ==
  IF ~TruthyDate(expiry)
  THEN ChainResult(None, Some(<<"No expiry date provided">>), <<>>, <<>>, FALSE)
  ELSE IF out.kind = "raise"
  THEN ChainResult(None, None,
                   <<LogEntry("error", "Error retrieving options chain", tk, NoDate, out.msg)>>,
                   <<Request("option_chain", expiry.v)>>, TRUE)
  ELSE ChainResult(Some(IF option_type = "C" THEN out.calls
                        ELSE IF option_type = "P" THEN out.puts
                        ELSE out.calls \o out.puts),
                   None, <<>>, <<Request("option_chain", expiry.v)>>, FALSE)

\* expiry is an Optional date string, out the provider's answer to option_chain(expiry)
get_options_chain(tk, expiry, option_type, out) ==
  IF ~TruthyDate(expiry)
  THEN ChainResult(None, Some(<<"No expiry date provided">>), <<>>, <<>>, FALSE)
  ELSE IF out.kind = "raise"
  THEN ChainResult(None, Some(out.msg),
                   <<LogEntry("error", "Error retrieving options chain", tk, NoDate, out.msg)>>,
                   <<Request("option_chain", expiry.v)>>, TRUE)
  ELSE ChainResult(Some(IF option_type = "C" THEN out.calls
                        ELSE IF option_type = "P" THEN out.puts
                        ELSE out.calls \o out.puts),
                   None, <<>>, <<Request("option_chain", expiry.v)>>, FALSE)

\* --------------------------------------------- get_filtered_options
\* a plausible slip: only start_date validated
ValidateDatesStartOnly(start_date, end_date) ==
  IF TruthyDate(start_date) /\ ~Strptime(start_date.v).ok
  THEN Some(<<"Invalid start_date format. Use YYYY-MM-DD">>)
  ELSE None

\* the message of the validation failure, None when the bounds pass
ValidateDates(start_date, end_date) ==
  IF TruthyDate(start_date) /\ ~Strptime(start_date.v).ok
  THEN Some(<<"Invalid start_date format. Use YYYY-MM-DD">>)
  ELSE IF TruthyDate(end_date) /\ ~Strptime(end_date.v).ok
  THEN Some(<<"Invalid end_date format. Use YYYY-MM-DD">>)
  ELSE None

\* datetime.strptime(d, "%Y-%m-%d").date() if d else None; ok = FALSE: ValueError
DateObj(d) ==
  IF ~TruthyDate(d) THEN [ok |-> TRUE, obj |-> NoneNum]
  ELSE IF Strptime(d.v).ok THEN [ok |-> TRUE, obj |-> Some(Strptime(d.v).date)]
  ELSE [ok |-> FALSE, obj |-> NoneNum]

\* a plausible slip: the bounds taken as exclusive
FilterExpirationsExclusive(expirations, start_date_obj, end_date_obj) ==
  LET Keep(exp) ==
        /\ (start_date_obj.none \/ Strptime(exp).date > start_date_obj.v)
        /\ (end_date_obj.none \/ Strptime(exp).date < end_date_obj.v)
  IN SelectSeq(expirations, Keep)

\* valid_expirations; a date object is always truthy, so `not obj` is `obj is None`
FilterExpirations(expirations, start_date_obj, end_date_obj) ==
  LET Keep(exp) ==
        /\ (start_date_obj.none \/ Strptime(exp).date >= start_date_obj.v)
        /\ (end_date_obj.none \/ Strptime(exp).date <= end_date_obj.v)
  IN SelectSeq(expirations, Keep)

\* the outer `except Exception as e` of get_filtered_options
FailedToRetrieve(msg, calls, raised) ==
  Effect(Ret(None, None, Some(<<"Failed to retrieve options data: ">> \o msg)),
         <<LogEntry("error", "Error in get_filtered_options", "", NoDate, msg)>>,
         calls, raised)

\* get_filtered_options up to the dispatch of the pool: dispatch = FALSE is a return
FilteredOptionsStart(tk, start_date, end_date, out) ==
  LET bad == ValidateDates(start_date, end_date)
      listing == <<Request("options", NoDate)>>
      expirations == out.frame
      start_date_obj == DateObj(start_date)
      end_date_obj == DateObj(end_date)
      valid == FilterExpirations(expirations, start_date_obj.obj, end_date_obj.obj)
      Return(e) == [dispatch |-> FALSE, effect |-> e,
                    expirations |-> <<>>, valid_expirations |-> <<>>]
  IN IF ~bad.none
     THEN Return(Effect(Ret(None, None, bad), <<>>, <<>>, FALSE))
     ELSE IF out.kind = "raise"
     THEN Return(FailedToRetrieve(out.msg, listing, TRUE))
     ELSE IF expirations = <<>>
     THEN [Return(Effect(Ret(None, None, Some(<<"No options available for ", tk>>)),
                         <<>>, listing, FALSE))
             EXCEPT !.expirations = expirations]
     ELSE IF ~start_date_obj.ok \/ ~end_date_obj.ok
     THEN [Return(FailedToRetrieve(<<"time data does not match format">>, listing, FALSE))
             EXCEPT !.expirations = expirations]
     ELSE IF valid = <<>>
     THEN [Return(Effect(Ret(None, None,
                             Some(<<"No options found for ", tk,
                                    " within specified date range">>)),
                         <<>>, listing, FALSE))
             EXCEPT !.expirations = expirations]
     ELSE [dispatch |-> TRUE,
           effect |-> Effect(Ret(None, None, None), <<>>, listing, FALSE),
           expirations |-> expirations, valid_expirations |-> valid]

\* a future of the pool: pending, or done with get_options_chain's pair
Pending == [done |-> FALSE, chain |-> None, error |-> None]
Done(chain, error) == [done |-> TRUE, chain |-> chain, error |-> error]

\* a plausible slip: results taken as they complete (as_completed)
ExecutorMapAsCompleted(futures, completed) ==
  [i \in 1..Len(completed) |-> futures[completed[i]]]

\* list(executor.map(...)): the results in the order of valid_expirations
ExecutorMap(futures, completed) ==
  [i \in 1..Len(futures) |-> futures[i]]

\* a plausible slip: the results read as soon as one fetch has completed
PoolJoinedAtFirst(futures) == \E i \in 1..Len(futures) : futures[i].done

\* list(executor.map(...)) and the exit of the `with` block wait for every future
PoolJoined(futures) == \A i \in 1..Len(futures) : futures[i].done

\* zip(options_results, valid_expirations)
Zip(options_results, valid_expirations) ==
  [i \in 1..Min(Len(options_results), Len(valid_expirations)) |->
     [chain |-> options_results[i].chain, error |-> options_results[i].error,
      expiry |-> valid_expirations[i]]]

\* chain.assign(expiryDate=expiry)
Assign(chain, expiry) ==
  [i \in 1..Len(chain) |->
     [contractExpiry |-> chain[i].contractExpiry, contractType |-> chain[i].contractType,
      strike |-> chain[i].strike, openInterest |-> chain[i].openInterest,
      volume |-> chain[i].volume, expiryDate |-> expiry]]

\* the loop over the zipped results: the chains kept and the warnings logged,
\* both in the order of the pairs
CollectChains(pairs) ==
  LET Errored(p) == TruthyStr(p.error)
      Kept(p) == ~TruthyStr(p.error) /\ ~p.chain.none
      errored == SelectSeq(pairs, Errored)
      kept == SelectSeq(pairs, Kept)
  IN [chains |-> [i \in DOMAIN kept |-> Assign(kept[i].chain.v, kept[i].expiry)],
      warnings |-> [i \in DOMAIN errored |->
                      LogEntry("warning", "Error fetching options for expiry",
                               "", errored[i].expiry, errored[i].error.v)]]

\* a plausible slip: the bounds tested for truth, so that 0 counts as not supplied
StrikeFilterTruthy(df, strike_lower, strike_upper) ==
  LET Keep(r) ==
        /\ (strike_lower.none \/ strike_lower.v = 0 \/ r.strike >= strike_lower.v)
        /\ (strike_upper.none \/ strike_upper.v = 0 \/ r.strike <= strike_upper.v)
  IN SelectSeq(df, Keep)

\* the mask: each bound applied when it is not None
StrikeFilter(df, strike_lower, strike_upper) ==
  LET Keep(r) ==
        /\ (strike_lower.none \/ r.strike >= strike_lower.v)
        /\ (strike_upper.none \/ r.strike <= strike_upper.v)
  IN SelectSeq(df, Keep)

\* row a goes strictly before row b
Precedes(a, b) ==
  \/ a.openInterest > b.openInterest
  \/ (a.openInterest = b.openInterest /\ a.volume > b.volume)

\* a plausible slip: sorted on openInterest alone
SortByOpenInterestOnly(df) ==
  LET Ahead(i) ==
        {j \in DOMAIN df : \/ df[j].openInterest > df[i].openInterest
                           \/ (df[j].openInterest = df[i].openInterest /\ j < i)}
  IN [p \in DOMAIN df |-> df[CHOOSE i \in DOMAIN df : Cardinality(Ahead(i)) = p - 1]]

\* df.sort_values(['openInterest', 'volume'], ascending=[False, False]):
\* a stable sort (pandas sorts several keys with a lexsort), so row i lands behind
\* every row that precedes it and behind every earlier row of the same rank
SortValues(df) ==
  LET Ahead(i) ==
        {j \in DOMAIN df : \/ Precedes(df[j], df[i])
                           \/ (~Precedes(df[i], df[j]) /\ j < i)}
  IN [p \in DOMAIN df |-> df[CHOOSE i \in DOMAIN df : Cardinality(Ahead(i)) = p - 1]]

\* get_filtered_options from the zip loop to the return
FilteredOptionsFinish(tk, options_results, valid_expirations, strike_lower, strike_upper) ==
  LET got == CollectChains(Zip(options_results, valid_expirations))
      df == Concat(got.chains)
      masked == IF ~strike_lower.none \/ ~strike_upper.none
                THEN StrikeFilter(df, strike_lower, strike_upper)
                ELSE df
  IN IF got.chains = <<>>
     THEN Effect(Ret(None, None, Some(<<"No options found for ", tk, " matching criteria">>)),
                 got.warnings, <<>>, FALSE)
     ELSE Effect(Ret(Some(SortValues(masked)), None, None), got.warnings, <<>>, FALSE)

\* ------------------------------------------------------------- state
VARIABLES
  pc,                \* "idle", "fetching" (the pool of get_filtered_options runs), "returned"
  method,            \* the public method called last
  ticker,
  start_date, end_date, strike_lower, strike_upper, option_type,
                     \* the arguments of get_filtered_options (option_type also of
                     \* get_options_chain)
  expiry,            \* the expiry argument of get_options_chain
  upstream,          \* what the provider answers to the two holder requests of this call
  expirations,       \* t.options
  valid_expirations,
  futures,           \* the pool's futures, one per valid expiry, in submission order
  completed,         \* the indices of the futures in the order they completed
  ret,               \* the value returned
  log,               \* the records logged during the call
  calls,             \* the upstream requests issued during the call
  raised             \* an upstream call of this call raised

vars ==
  <<pc, method, ticker, start_date, end_date, strike_lower, strike_upper, option_type,
    expiry, upstream, expirations, valid_expirations, futures, completed, ret, log,
    calls, raised>>

NoRet == Ret(None, None, None)
NoUpstream == [inst |-> ReturnsNone, fund |-> ReturnsNone]

Init ==
  /\ pc = "idle"
  /\ method = "none"
  /\ ticker = ""
  /\ start_date = NoneDate
  /\ end_date = NoneDate
  /\ strike_lower = NoneNum
  /\ strike_upper = NoneNum
  /\ option_type = "None"
  /\ expiry = NoneDate
  /\ upstream = NoUpstream
  /\ expirations = <<>>
  /\ valid_expirations = <<>>
  /\ futures = <<>>
  /\ completed = <<>>
  /\ ret = NoRet
  /\ log = <<>>
  /\ calls = <<>>
  /\ raised = FALSE

\* the agent is not inside a call
Ready == pc = "idle"

\* a call of method m returns with effect e
Return(m, tk, e) ==
  /\ pc' = "returned"
  /\ method' = m
  /\ ticker' = tk
  /\ ret' = e.ret
  /\ log' = e.log
  /\ calls' = e.calls
  /\ raised' = e.raised

\* a call that is not an options call leaves no options state behind
NoOptions ==
  /\ start_date' = NoneDate
  /\ end_date' = NoneDate
  /\ strike_lower' = NoneNum
  /\ strike_upper' = NoneNum
  /\ option_type' = "None"
  /\ expiry' = NoneDate
  /\ expirations' = <<>>
  /\ valid_expirations' = <<>>
  /\ futures' = <<>>
  /\ completed' = <<>>

\* ----------------------------------------------------------- actions
GetTickerInfo ==
  /\ Ready
  /\ \E tk \in Tickers, out \in FrameOutcomes :
       Return("get_ticker_info", tk, get_ticker_info(tk, out))
  /\ NoOptions
  /\ upstream' = NoUpstream

GetCalendar ==
  /\ Ready
  /\ \E tk \in Tickers, out \in FrameOutcomes :
       Return("get_calendar", tk, get_calendar(tk, out))
  /\ NoOptions
  /\ upstream' = NoUpstream

GetRecommendations ==
  /\ Ready
  /\ \E tk \in Tickers, limit \in Limits, out \in FrameOutcomes :
       Return("get_recommendations", tk, get_recommendations(tk, limit, out))
  /\ NoOptions
  /\ upstream' = NoUpstream

GetUpgradesDowngrades ==
  /\ Ready
  /\ \E tk \in Tickers, limit \in Limits, out \in FrameOutcomes :
       Return("get_upgrades_downgrades", tk, get_upgrades_downgrades(tk, limit, out))
  /\ NoOptions
  /\ upstream' = NoUpstream

GetPriceHistory ==
  /\ Ready
  /\ \E tk \in Tickers, out \in FrameOutcomes :
       Return("get_price_history", tk, get_price_history(tk, out))
  /\ NoOptions
  /\ upstream' = NoUpstream

GetFinancialStatements ==
  /\ Ready
  /\ \E tk \in Tickers, st \in StatementTypes, fr \in Frequencies, out \in StatementOutcomes :
       Return("get_financial_statements", tk, get_financial_statements(tk, st, fr, out))
  /\ NoOptions
  /\ upstream' = NoUpstream

GetInstitutionalHolders ==
  /\ Ready
  /\ \E tk \in Tickers, top_n \in Limits, inst \in FrameOutcomes, fund \in FrameOutcomes :
       /\ Return("get_institutional_holders", tk,
                 get_institutional_holders(tk, top_n, inst, fund))
       /\ upstream' = [inst |-> inst, fund |-> fund]
  /\ NoOptions

GetEarningsHistory ==
  /\ Ready
  /\ \E tk \in Tickers, limit \in Limits, out \in FrameOutcomes :
       Return("get_earnings_history", tk, get_earnings_history(tk, limit, out))
  /\ NoOptions
  /\ upstream' = NoUpstream

GetInsiderTrades ==
  /\ Ready
  /\ \E tk \in Tickers, limit \in Limits, out \in FrameOutcomes :
       Return("get_insider_trades", tk, get_insider_trades(tk, limit, out))
  /\ NoOptions
  /\ upstream' = NoUpstream

ExpiryArgs == {NoneDate, Some(NoDate)} \cup {Some(Padded(d)) : d \in Days}

\* get_options_chain called by the user of the agent
GetOptionsChain ==
  /\ Ready
  /\ \E tk \in Tickers, ex \in ExpiryArgs, ot \in OptionTypes :
       \E out \in ChainOutcomes(ex.v.day) :
         LET r == get_options_chain(tk, ex, ot, out)
         IN /\ Return("get_options_chain", tk,
                      Effect(Ret(r.chain, None, r.error), r.log, r.calls, r.raised))
            /\ expiry' = ex
            /\ option_type' = ot
  /\ start_date' = NoneDate
  /\ end_date' = NoneDate
  /\ strike_lower' = NoneNum
  /\ strike_upper' = NoneNum
  /\ expirations' = <<>>
  /\ valid_expirations' = <<>>
  /\ futures' = <<>>
  /\ completed' = <<>>
  /\ upstream' = NoUpstream

\* get_filtered_options from its call to its first return or to the dispatch of the pool
GetFilteredOptions ==
  /\ Ready
  /\ \E tk \in Tickers, sd \in DateArgs, ed \in DateArgs, lo \in StrikeArgs,
        hi \in StrikeArgs, ot \in OptionTypes, out \in ExpirationOutcomes :
       LET s == FilteredOptionsStart(tk, sd, ed, out)
       IN /\ method' = "get_filtered_options"
          /\ ticker' = tk
          /\ start_date' = sd
          /\ end_date' = ed
          /\ strike_lower' = lo
          /\ strike_upper' = hi
          /\ option_type' = ot
          /\ pc' = IF s.dispatch THEN "fetching" ELSE "returned"
          /\ ret' = s.effect.ret
          /\ log' = s.effect.log
          /\ calls' = s.effect.calls
          /\ raised' = s.effect.raised
          /\ expirations' = s.expirations
          /\ valid_expirations' = s.valid_expirations
          /\ futures' = [i \in 1..Len(s.valid_expirations) |-> Pending]
  /\ completed' = <<>>
  /\ expiry' = NoneDate
  /\ upstream' = NoUpstream

\* a worker of the pool runs get_options_chain for the i-th valid expiry to its end
Fetch(i) ==
  /\ pc = "fetching"
  /\ i \in DOMAIN futures
  /\ ~futures[i].done
  /\ \E out \in ChainOutcomes(valid_expirations[i].day) :
       LET r == get_options_chain(ticker, Some(valid_expirations[i]), option_type, out)
       IN /\ futures' = [futures EXCEPT ![i] = Done(r.chain, r.error)]
          /\ log' = log \o r.log
          /\ calls' = calls \o r.calls
          /\ raised' = (raised \/ r.raised)
  /\ completed' = Append(completed, i)
  /\ UNCHANGED <<pc, method, ticker, start_date, end_date, strike_lower, strike_upper,
                 option_type, expiry, upstream, expirations, valid_expirations, ret>>

FetchAny == \E i \in 1..Len(futures) : Fetch(i)

\* get_filtered_options from the end of the `with` block to its return
Collect ==
  /\ pc = "fetching"
  /\ PoolJoined(futures)
  /\ LET e == FilteredOptionsFinish(ticker, ExecutorMap(futures, completed),
                                    valid_expirations, strike_lower, strike_upper)
     IN /\ ret' = e.ret
        /\ log' = log \o e.log
  /\ pc' = "returned"
  /\ UNCHANGED <<method, ticker, start_date, end_date, strike_lower, strike_upper,
                 option_type, expiry, upstream, expirations, valid_expirations, futures,
                 completed, calls, raised>>

\* the caller has taken the returned value; nothing of a call outlives it
\* (the session's cache and rate limiter are the provider's side of the model)
NextCall ==
  /\ pc = "returned"
  /\ pc' = "idle"
  /\ method' = "none"
  /\ ticker' = ""
  /\ ret' = NoRet
  /\ log' = <<>>
  /\ calls' = <<>>
  /\ raised' = FALSE
  /\ upstream' = NoUpstream
  /\ NoOptions

Next ==
  \/ GetTickerInfo
  \/ GetCalendar
  \/ GetRecommendations
  \/ GetUpgradesDowngrades
  \/ GetPriceHistory
  \/ GetFinancialStatements
  \/ GetInstitutionalHolders
  \/ GetEarningsHistory
  \/ GetInsiderTrades
  \/ GetOptionsChain
  \/ GetFilteredOptions
  \/ FetchAny
  \/ Collect
  \/ NextCall

Spec == Init /\ [][Next]_vars


\* ------------------------------------------- data-level specification
\* get_filtered_options("AAPL", strike_lower=lo, strike_upper=hi) on a ticker with
\* three listed expiries, at the moment the pool's last fetch has completed: the
\* fetched chains and the strike bounds are drawn from all values within the bounds.
DataExpirations == <<Padded(1), Padded(2), Padded(3)>>

DataInit ==
  \E lo \in StrikeArgs, hi \in StrikeArgs :
    \E o1 \in RichChainOutcomes(1), o2 \in RichChainOutcomes(2), o3 \in RichChainOutcomes(3) :
      LET outs == <<o1, o2, o3>>
          r == [i \in 1..3 |->
                  get_options_chain("AAPL", Some(DataExpirations[i]), "None", outs[i])]
      IN /\ pc = "fetching"
         /\ method = "get_filtered_options"
         /\ ticker = "AAPL"
         /\ start_date = NoneDate
         /\ end_date = NoneDate
         /\ strike_lower = lo
         /\ strike_upper = hi
         /\ option_type = "None"
         /\ expiry = NoneDate
         /\ upstream = NoUpstream
         /\ expirations = DataExpirations
         /\ valid_expirations = DataExpirations
         /\ futures = [i \in 1..3 |-> Done(r[i].chain, r[i].error)]
         /\ completed = <<1, 2, 3>>
         /\ ret = NoRet
         /\ log = r[1].log \o r[2].log \o r[3].log
         /\ calls = <<Request("options", NoDate)>> \o r[1].calls \o r[2].calls \o r[3].calls
         /\ raised = (r[1].raised \/ r[2].raised \/ r[3].raised)

DataNext == Collect \/ NextCall

DataSpec == DataInit /\ [][DataNext]_vars

\* ------------------------------------------- pool-level specification
\* get_filtered_options(ticker, option_type=ot) at the moment the pool has been
\* dispatched: no date bounds, so that every listed expiry is valid. Each worker
\* thread is scheduled fairly and the calling thread runs on once the pool is joined.
PoolInit ==
  \E ot \in OptionTypes, S \in (SUBSET Days) \ {{}} :
    LET s == FilteredOptionsStart("AAPL", NoneDate, NoneDate, Returns(Ascending(S)))
    IN /\ pc = "fetching"
       /\ method = "get_filtered_options"
       /\ ticker = "AAPL"
       /\ start_date = NoneDate
       /\ end_date = NoneDate
       /\ strike_lower = NoneNum
       /\ strike_upper = NoneNum
       /\ option_type = ot
       /\ expiry = NoneDate
       /\ upstream = NoUpstream
       /\ expirations = s.expirations
       /\ valid_expirations = s.valid_expirations
       /\ futures = [i \in 1..Len(s.valid_expirations) |-> Pending]
       /\ completed = <<>>
       /\ ret = s.effect.ret
       /\ log = s.effect.log
       /\ calls = s.effect.calls
       /\ raised = s.effect.raised

PoolNext == FetchAny \/ Collect

PoolSpec ==
  /\ PoolInit
  /\ [][PoolNext]_vars
  /\ \A i \in Days : WF_vars(Fetch(i))
  /\ WF_vars(Collect)

\* ------------------------------------------------------------ claims
Returned(m) == pc = "returned" /\ method = m
InFilteredOptions == method = "get_filtered_options" /\ pc \in {"fetching", "returned"}

Count(seq, x) == Cardinality({k \in DOMAIN seq : seq[k] = x})

\* the fetch of the i-th valid expiry ended with a chain / with an error
Succeeded(i) == futures[i].done /\ ~futures[i].chain.none
Failed(i) == futures[i].done /\ futures[i].chain.none

\* row r of the chain fetched for expiry e, as the caller should see it
WithExpiry(r, e) ==
  [contractExpiry |-> r.contractExpiry, contractType |-> r.contractType,
   strike |-> r.strike, openInterest |-> r.openInterest, volume |-> r.volume,
   expiryDate |-> e]

InBounds(r) ==
  /\ (strike_lower.none \/ r.strike >= strike_lower.v)
  /\ (strike_upper.none \/ r.strike <= strike_upper.v)

\* the rows of the chain fetched for the i-th valid expiry
Owed(i) ==
  {WithExpiry(futures[i].chain.v[k], valid_expirations[i]) : k \in DOMAIN futures[i].chain.v}

Warned(e) ==
  \E k \in DOMAIN log : log[k].level = "warning" /\ log[k].expiry = e

ErrorLogged == \E k \in DOMAIN log : log[k].level = "error"

\* C1: every return of get_options_chain and of get_filtered_options is a pair
\* (records, error) of which exactly one is None, and no exception leaves the method.
ExactlyOneSlot ==
  (Returned("get_options_chain") \/ Returned("get_filtered_options"))
    => /\ ~ret.escaped
       /\ ret.value.none # ret.error.none

\* C1 witness: get_options_chain has returned after the provider raised an exception
\* whose message is empty.
ExactlyOneSlotWitness ==
  /\ Returned("get_options_chain")
  /\ raised
  /\ ret.value.none
  /\ ret.error = Some(<<>>)

\* a bound that is a string strptime rejects, the empty string included
Malformed(d) == ~d.none /\ ~Strptime(d.v).ok
\* a bound that is a non-empty string strptime rejects
MalformedNonEmpty(d) == TruthyDate(d) /\ ~Strptime(d.v).ok

\* C2 as stated: a start_date or end_date that is any string not matching YYYY-MM-DD,
\* the empty string included, makes get_filtered_options return (None, message)
\* without any upstream request.
MalformedDateNoNetwork ==
  (InFilteredOptions /\ (Malformed(start_date) \/ Malformed(end_date)))
    => /\ pc = "returned"
       /\ ret.value.none
       /\ TruthyStr(ret.error)
       /\ calls = <<>>

\* C2 as amended: a start_date or end_date that is a non-empty string strptime rejects
\* makes get_filtered_options return (None, message) without any upstream request.
NonEmptyMalformedDateNoNetwork ==
  (InFilteredOptions /\ (MalformedNonEmpty(start_date) \/ MalformedNonEmpty(end_date)))
    => /\ pc = "returned"
       /\ ret.value.none
       /\ TruthyStr(ret.error)
       /\ calls = <<>>

\* C2 witness: the call returned on a malformed end_date after a start_date that parses.
NonEmptyMalformedDateWitness ==
  /\ Returned("get_filtered_options")
  /\ TruthyDate(start_date) /\ Strptime(start_date.v).ok
  /\ end_date = Some(Garbage)
  /\ ret.error = Some(<<"Invalid end_date format. Use YYYY-MM-DD">>)

\* exactly one of at least two fetches failed, the others returned a chain
OneFetchFailed ==
  /\ Returned("get_filtered_options")
  /\ Len(futures) >= 2
  /\ \A i \in DOMAIN futures : futures[i].done
  /\ Cardinality({i \in DOMAIN futures : Failed(i)}) = 1

\* C3: when one of the N fetches errors, whatever its message, and the others succeed,
\* the call succeeds, the result holds the rows of the other N-1 expiries (those inside
\* the strike bounds), and a warning names the expiry that failed.
PartialFailureWarned ==
  OneFetchFailed
    => /\ ~ret.value.none
       /\ ret.error.none
       /\ \A i \in DOMAIN futures :
            /\ Succeeded(i) =>
                 \A r \in Owed(i) : InBounds(r) => Count(ret.value.v, r) >= 1
            /\ Failed(i) => Warned(valid_expirations[i])

\* C4: every returned row carries the expiry whose fetch returned it, and every warning
\* names an expiry whose fetch failed, with that fetch's message, in whatever order
\* the fetches completed.
ResultsPairedWithExpiry ==
  Returned("get_filtered_options")
    => /\ ~ret.value.none =>
            \A k \in DOMAIN ret.value.v :
              \E i \in DOMAIN futures :
                /\ Succeeded(i)
                /\ ret.value.v[k].expiryDate = valid_expirations[i]
                /\ ret.value.v[k].contractExpiry = valid_expirations[i].day
                /\ ret.value.v[k] \in Owed(i)
       /\ \A k \in DOMAIN log :
            log[k].level = "warning" =>
              \E i \in DOMAIN futures :
                /\ Failed(i)
                /\ log[k].expiry = valid_expirations[i]
                /\ log[k].detail = futures[i].error.v

\* C4 witness: the later expiry's fetch completed first; one fetch failed and was
\* warned about, another one's rows were returned.
ResultsPairedWitness ==
  /\ Returned("get_filtered_options")
  /\ Len(completed) >= 2
  /\ completed[1] > completed[2]
  /\ ~ret.value.none
  /\ Len(ret.value.v) >= 1
  /\ \E k \in DOMAIN log : log[k].level = "warning"

\* C5 as stated: whenever an upstream call made during a public method raised, the
\* method returned normally with an absent result and an error was logged.
UpstreamRaiseGivesAbsent ==
  (pc = "returned" /\ raised)
    => /\ ~ret.escaped
       /\ ret.value.none
       /\ ret.second.none
       /\ ErrorLogged

\* C5 as amended: whenever an upstream call made during a public method raised, the
\* method returned normally and an error was logged; the result is absent, except
\* that get_filtered_options returns the merged rows exactly when the fetch of at
\* least one expiry succeeded.
UpstreamRaiseIsContained ==
  (pc = "returned" /\ raised)
    => /\ ~ret.escaped
       /\ ErrorLogged
       /\ ret.second.none
       /\ method # "get_filtered_options" => ret.value.none
       /\ method = "get_filtered_options" =>
            (ret.value.none <=> ~\E i \in DOMAIN futures : Succeeded(i))

\* C5 witness: get_price_history returned after the provider's history call raised.
UpstreamRaiseWitness ==
  /\ Returned("get_price_history")
  /\ raised
  /\ ret.value.none

\* C6: get_institutional_holders returns the half whose upstream call succeeds even
\* when the other half's call fails.
HoldersIndependent ==
  Returned("get_institutional_holders")
    => /\ (upstream.inst.kind = "raise" /\ upstream.fund.kind = "data") => ~ret.second.none
       /\ (upstream.fund.kind = "raise" /\ upstream.inst.kind = "data") => ~ret.value.none

\* the merged rows before the strike filter, in the order of the valid expiries
RECURSIVE MergedFrom(_)
MergedFrom(i) ==
  IF i > Len(futures) THEN <<>>
  ELSE (IF Succeeded(i)
        THEN [k \in DOMAIN futures[i].chain.v |->
                WithExpiry(futures[i].chain.v[k], valid_expirations[i])]
        ELSE <<>>) \o MergedFrom(i + 1)

Successful == Returned("get_filtered_options") /\ ~ret.value.none

\* C7: every row of a successful get_filtered_options result has strike >= strike_lower
\* when that bound was supplied and strike <= strike_upper when that one was (0 is a
\* supplied bound), and every fetched row inside the supplied bounds is returned.
StrikeBoundsHold ==
  Successful
    => /\ \A k \in DOMAIN ret.value.v : InBounds(ret.value.v[k])
       /\ \A k \in DOMAIN MergedFrom(1) :
            InBounds(MergedFrom(1)[k]) =>
              Count(ret.value.v, MergedFrom(1)[k]) = Count(MergedFrom(1), MergedFrom(1)[k])

\* C7 witness: both bounds supplied, the upper one 0; a fetched row above it was dropped
\* and a fetched row on it was kept.
StrikeBoundsWitness ==
  /\ Successful
  /\ strike_lower = Some(0)
  /\ strike_upper = Some(0)
  /\ Len(ret.value.v) >= 1
  /\ \E k \in DOMAIN MergedFrom(1) : MergedFrom(1)[k].strike > 0

\* C8: a successful get_filtered_options result of two or more records is sorted
\* non-increasing by open interest, equal open interests non-increasing by volume,
\* and it is a permutation of the merged rows that pass the strike bounds.
SortedByOpenInterestThenVolume ==
  (Successful /\ Len(ret.value.v) >= 2)
    => /\ \A k \in 1..(Len(ret.value.v) - 1) :
            \/ ret.value.v[k].openInterest > ret.value.v[k + 1].openInterest
            \/ /\ ret.value.v[k].openInterest = ret.value.v[k + 1].openInterest
               /\ ret.value.v[k].volume >= ret.value.v[k + 1].volume
       /\ \A k \in DOMAIN MergedFrom(1) :
            Count(ret.value.v, MergedFrom(1)[k]) =
              IF InBounds(MergedFrom(1)[k]) THEN Count(MergedFrom(1), MergedFrom(1)[k]) ELSE 0
       /\ \A k \in DOMAIN ret.value.v : Count(MergedFrom(1), ret.value.v[k]) >= 1

\* C8 witness: three records came back; the merged order had a lower open interest
\* first and, among equal open interests, a lower volume first.
SortedWitness ==
  /\ Successful
  /\ Len(ret.value.v) = 3
  /\ Len(MergedFrom(1)) = 3
  /\ MergedFrom(1)[1].openInterest < MergedFrom(1)[2].openInterest
  /\ MergedFrom(1)[2].openInterest = MergedFrom(1)[3].openInterest
  /\ MergedFrom(1)[2].volume < MergedFrom(1)[3].volume

FetchesIssued(e) == Count(calls, Request("option_chain", e))

\* C9: get_filtered_options returns only when every dispatched fetch has run to its end,
\* each valid expiry having been fetched whether or not another fetch failed, and
\* once the pool is dispatched the call eventually returns.
AllFetchesRunToCompletion ==
  /\ [](Returned("get_filtered_options")
          => \A i \in DOMAIN futures :
               /\ futures[i].done
               /\ FetchesIssued(valid_expirations[i]) = 1)
  /\ (pc = "fetching") ~> (pc = "returned")

\* C9 witness: the fetch that completed first failed, and a fetch that completed
\* after it returned a chain before the call returned.
AllFetchesWitness ==
  /\ Returned("get_filtered_options")
  /\ Len(completed) >= 2
  /\ Failed(completed[1])
  /\ Succeeded(completed[2])

\* a bound that is absent or a string strptime accepts
WellFormed(d) == d.none \/ Strptime(d.v).ok

\* expiry e lies between the supplied bounds
InWindow(e) ==
  /\ (start_date.none \/ Strptime(e).date >= Strptime(start_date.v).date)
  /\ (end_date.none \/ Strptime(e).date <= Strptime(end_date.v).date)

Available(e) == \E k \in DOMAIN expirations : expirations[k] = e

DateRangeMessage ==
  Some(<<"No options found for ", ticker, " within specified date range">>)

\* the fetches issued so far are fetches of available expiries inside the window, one
\* each, and at the return every such expiry has been fetched
FetchedExactlyTheWindow ==
  \A d \in Days :
    /\ FetchesIssued(Padded(d)) <= 1
    /\ FetchesIssued(Padded(d)) = 1 => (Available(Padded(d)) /\ InWindow(Padded(d)))
    /\ (pc = "returned" /\ Available(Padded(d)) /\ InWindow(Padded(d)))
         => FetchesIssued(Padded(d)) = 1

\* the expiry list itself could not be retrieved
ListingRaised == raised /\ futures = <<>>

\* C10 as stated: with well-formed bounds (and the expiry list retrieved), one fetch is
\* issued for each available expiry inside the window and for no other; if no expiry
\* is inside the window no fetch is issued and the result is (None, the date-range
\* message).
WindowFetchedOrDateRangeMessage ==
  (InFilteredOptions /\ WellFormed(start_date) /\ WellFormed(end_date) /\ ~ListingRaised)
    => /\ FetchedExactlyTheWindow
       /\ (\A k \in DOMAIN expirations : ~InWindow(expirations[k]))
            => /\ pc = "returned"
               /\ calls = <<Request("options", NoDate)>>
               /\ ret.value.none
               /\ ret.error = DateRangeMessage

\* C10 as amended: with well-formed bounds, one fetch is issued for each available
\* expiry inside the window and for no other; if at least one expiry is available and
\* none is inside the window no fetch is issued and the result is (None, the
\* date-range message).
WindowFetchedOrDateRangeMessageIfListed ==
  (InFilteredOptions /\ WellFormed(start_date) /\ WellFormed(end_date))
    => /\ FetchedExactlyTheWindow
       /\ (expirations # <<>> /\ \A k \in DOMAIN expirations : ~InWindow(expirations[k]))
            => /\ pc = "returned"
               /\ calls = <<Request("options", NoDate)>>
               /\ ret.value.none
               /\ ret.error = DateRangeMessage

\* C10 witness: both bounds supplied and equal to an available expiry, another expiry
\* available outside the window; the call returned having fetched the one expiry.
WindowWitness ==
  /\ Returned("get_filtered_options")
  /\ ~start_date.none /\ ~end_date.none
  /\ Strptime(start_date.v).ok /\ Strptime(end_date.v).ok
  /\ Len(expirations) >= 2
  /\ Len(valid_expirations) = 1
  /\ Strptime(start_date.v).date = valid_expirations[1].day
  /\ Strptime(end_date.v).date = valid_expirations[1].day
  /\ FetchesIssued(valid_expirations[1]) = 1

====
